---- MODULE Spec2Model ----
(***************************************************************************)
(* Model of src/menu_api.py: the MenuManager of the Aroma menu service.    *)
(*                                                                         *)
(* Program state: menu_cache, last_refresh (MenuManager's two fields).     *)
(* Environment: the wall clock `now` (minutes) and, at every refresh, the  *)
(* catalog the Clover API serves and whether one of the page requests      *)
(* fails.  The route handlers are `async def` functions with no await in   *)
(* them, so each handler runs to completion on the event loop before the   *)
(* next one starts: one action per handler.                                *)
(*                                                                         *)
(* History variables (not program state): `call` describes the last        *)
(* handler that ran, `cycle` the last fetch cycle that reached the         *)
(* processing loop, `cache_raw` the raw record each cached item was built  *)
(* from, `menu_out` the list the last get_menu() returned.                 *)
(***************************************************************************)
EXTENDS Integers, Sequences, FiniteSets, TLC

VARIABLES menu_cache, last_refresh, now, pc, call, cycle, cache_raw, menu_out

vars == <<menu_cache, last_refresh, now, pc, call, cycle, cache_raw, menu_out>>

---------------------------------------------------------------------------
(* Bounds of the model.                                                    *)

\* longest catalog enumerated item by item
MaxItems == 3
\* the clock stops advancing here (minutes)
MaxTime == 31
\* longest catalog of the service specification
MaxServiceItems == 2
\* full pages of the longest paginated catalog
BulkPages == 3
\* items on the last, short page of a paginated catalog
MaxTail == 5

---------------------------------------------------------------------------
(* Program constants.                                                      *)

\* limit = 200
limit == 200
\* timedelta(minutes=30)
CacheMinutes == 30

INCLUDED_CATEGORY_IDS ==
    { "M17PNQEPG6K02", "FY9BQPAQ0NNFP", "E5H1DFT9T32VR", "FT8HR9VNRQW4R",
      "MEM5GGGW27WX2", "FSXP785519PBA", "X146DX02VVMG2", "07FG0SA6FMFFY",
      "JB8VSZRM49J9P", "Z1ZKCQTDR6BKJ", "EEZHPBVTD0H7W", "M1H649PKCZ5TE",
      "RHV2MKASX5FVA", "JVKES871M1PX0", "D191C2W2SYCW0", "994Q0TTW39AHY",
      "407WNKVYVHS2E", "KWZCZRAK0ZE7J", "25NPKW5MTBQPA" }

---------------------------------------------------------------------------
(* Python values.  A str is the sequence of its characters; a JSON scalar  *)
(* that may be null is tagged; a dict is a function whose domain is the    *)
(* set of keys present.                                                    *)

JNull == [t |-> "null"]
JStr(s) == [t |-> "str", v |-> s]
JInt(n) == [t |-> "int", v |-> n]

\* None
None == JNull

\* isinstance(v, dict): tagged scalars are the only non-dict values used
IsDict(v) == "t" \notin DOMAIN v

\* d.get(k, default)
Get(d, k, default) == IF k \in DOMAIN d THEN d[k] ELSE default

\* bool(v) of a JSON scalar
Truthy(v) ==
    CASE v.t = "null" -> FALSE
      [] v.t = "str"  -> v.v # ""
      [] v.t = "int"  -> v.v # 0

\* ord(c) for the characters that occur in the catalogs
Ord(c) ==
    CASE c = " " -> 32 [] c = "." -> 46
      [] c = "6" -> 54 [] c = "7" -> 55
      [] c = "A" -> 65 [] c = "B" -> 66 [] c = "G" -> 71 [] c = "N" -> 78
      [] c = "X" -> 88 [] c = "Z" -> 90
      [] c = "a" -> 97 [] c = "e" -> 101 [] c = "l" -> 108
      [] c = "n" -> 110 [] c = "r" -> 114

\* s < t for two str (code point order, a proper prefix is smaller)
RECURSIVE StrLess(_, _)
StrLess(s, t) ==
    IF t = <<>> THEN FALSE
    ELSE IF s = <<>> THEN TRUE
    ELSE IF Ord(Head(s)) # Ord(Head(t)) THEN Ord(Head(s)) < Ord(Head(t))
    ELSE StrLess(Tail(s), Tail(t))

Min(a, b) == IF a < b THEN a ELSE b

---------------------------------------------------------------------------
(* The catalogs the Clover API may serve.                                  *)

Str(c) == <<c>>
\* "67. A": a name with an ordinal prefix
OrdinalName == <<"6", "7", ".", " ", "A">>

WL1 == "RHV2MKASX5FVA"
WL2 == "JVKES871M1PX0"
NotListed == "ZZZZZZZZZZZZZ"

Ref(id, name) == [id |-> id, name |-> name]
Cats(refs) == [elements |-> refs]

\* A/Z, listed, hidden absent
itAZ == [id |-> JStr("I1"), name |-> Str("Z"), price |-> JInt(250),
         categories |-> Cats(<<Ref(WL1, Str("A"))>>)]
\* B/X, an unlisted reference before the listed one, hidden
itBX == [id |-> JStr("I2"), name |-> Str("X"), price |-> JInt(1000),
         categories |-> Cats(<<Ref(NotListed, Str("N")), Ref(WL2, Str("B"))>>),
         hidden |-> TRUE]
\* A/"67. A", two listed references
itAA == [id |-> JStr("I3"), name |-> OrdinalName, price |-> JInt(995),
         categories |-> Cats(<<Ref(WL1, Str("A")), Ref(WL2, Str("B"))>>),
         hidden |-> FALSE]
\* the id of itAZ again, other contents, lower-case name
itDup == [id |-> JStr("I1"), name |-> Str("a"), price |-> JInt(300),
          categories |-> Cats(<<Ref(WL2, Str("B"))>>)]
\* the id of itAZ again, price 0
itZero == [id |-> JStr("I1"), name |-> Str("A"), price |-> JInt(0),
           categories |-> Cats(<<Ref(WL1, Str("A"))>>)]
\* the id of itBX again, only an unlisted category
itNoWl == [id |-> JStr("I2"), name |-> Str("A"), price |-> JInt(500),
           categories |-> Cats(<<Ref(NotListed, Str("N"))>>)]
\* no id key
itNoId == [name |-> Str("A"), price |-> JInt(300),
           categories |-> Cats(<<Ref(WL1, Str("A"))>>)]
\* "id": ""
itEmptyId == [id |-> JStr(""), name |-> Str("B"), price |-> JInt(300),
              categories |-> Cats(<<Ref(WL1, Str("A"))>>)]
\* "price": null
itNullPrice == [id |-> JStr("I3"), name |-> Str("A"), price |-> JNull,
                categories |-> Cats(<<Ref(WL1, Str("A"))>>)]
\* no price key, no name key, a listed reference without a name
itBare == [id |-> JStr("I3"),
           categories |-> Cats(<<[id |-> WL1]>>)]
\* no name key, a non-dict reference, then a listed reference without a name
itGeneral == [id |-> JStr("I2"), price |-> JInt(100),
              categories |-> Cats(<<JNull, [id |-> WL2]>>)]
\* no categories key
itNoCats == [id |-> JStr("I3"), name |-> Str("B"), price |-> JInt(100)]

\* the records the processing loop accepts
RawItems == { itAZ, itBX, itAA, itDup, itZero, itNoWl, itNoId, itEmptyId,
              itBare, itGeneral, itNoCats }

\* a good record, two free ones, and one the processing loop raises on
ServiceItems == { itAZ, itZero, itBare, itNullPrice }

SeqsUpTo(S, n) == UNION { [1..k -> S] : k \in 0..n }

\* every catalog of at most MaxItems raw items
Catalogs == SeqsUpTo(RawItems, MaxItems)

ServiceCatalogs == SeqsUpTo(ServiceItems, MaxServiceItems)

BulkPattern == <<itAZ, itBX, itAA>>

\* a catalog of n items that spans several pages
Bulk(n) == [i \in 1..n |-> BulkPattern[((i - 1) % Len(BulkPattern)) + 1]]

BulkSizes ==
    { n \in 0..(BulkPages * limit + MaxTail) :
        (n % limit) <= MaxTail \/ (n % limit) = limit - 1 }

BulkCatalogs == { Bulk(n) : n \in BulkSizes }

---------------------------------------------------------------------------
(* The fetch loop of refresh_menu.                                         *)

\* the request (counted from 0) that fails, if any, and how
NoFault == [requests |-> {}, kind |-> "none"]

\* requests.get raises, raise_for_status raises, response.json raises
FaultKinds == {"request_exception", "http_status", "bad_json"}

\* a fault on the first request: the catalog is never looked at
FirstFaults == { [requests |-> {0}, kind |-> kind] : kind \in FaultKinds }

\* a fault on a later request of a fetch of `catalog`
LaterFaults(catalog) ==
    { [requests |-> {k}, kind |-> kind] :
        k \in 1..(Len(catalog) \div limit), kind \in FaultKinds }

\* what the API does during one cycle: the catalog it serves and the fault
Attempts(C) ==
    { [catalog |-> <<>>, fault |-> f] : f \in FirstFaults } \cup
    UNION { { [catalog |-> c, fault |-> f] :
                f \in {NoFault} \cup LaterFaults(c) } : c \in C }

\* GET /v3/merchants/{id}/items?limit&offset: the `elements` of one page
Page(catalog, offset) ==
    SubSeq(catalog, offset + 1, Min(offset + limit, Len(catalog)))

\* if len(items) < limit: break  (Off: the comparison off by one)
LastPageOff(items) == Len(items) <= limit
LastPage(items) == Len(items) < limit

\* while True: ... ; `requests` is the sequence of offsets requested so far
RECURSIVE FetchLoop(_, _, _, _, _)
FetchLoop(catalog, fault, offset, all_items, requests) ==
    IF Len(requests) \in fault.requests
    THEN [ok |-> FALSE, all_items |-> all_items,
          requests |-> Append(requests, offset), error |-> fault.kind]
    ELSE LET items == Page(catalog, offset)
         IN  IF items = <<>>
             THEN [ok |-> TRUE, all_items |-> all_items,
                   requests |-> Append(requests, offset), error |-> "none"]
             ELSE IF LastPage(items)
             THEN [ok |-> TRUE, all_items |-> all_items \o items,
                   requests |-> Append(requests, offset), error |-> "none"]
             ELSE FetchLoop(catalog, fault, offset + limit,
                            all_items \o items, Append(requests, offset))

\* all_items = []; offset = 0; the loop
Fetch(catalog, fault) == FetchLoop(catalog, fault, 0, <<>>, <<>>)

---------------------------------------------------------------------------
(* The processing loop of refresh_menu.                                    *)

\* price_cents / 100, as units and hundredths
PriceDollars(price_cents) ==
    [units |-> price_cents \div 100, hundredths |-> price_cents % 100]

ZeroDollars == [units |-> 0, hundredths |-> 0]

\* cat_id in INCLUDED_CATEGORY_IDS, for a reference of the elements list
Listed(cat) ==
    /\ IsDict(cat)
    /\ "id" \in DOMAIN cat
    /\ cat.id \in INCLUDED_CATEGORY_IDS

\* for cat in elements: ... break: the first listed reference
\* (Off: the loop without its break, the last listed reference)
FirstListedOff(elements) ==
    LET hits == { i \in 1..Len(elements) : Listed(elements[i]) }
    IN  IF hits = {} THEN 0 ELSE CHOOSE i \in hits : \A j \in hits : j <= i
FirstListed(elements) ==
    LET hits == { i \in 1..Len(elements) : Listed(elements[i]) }
    IN  IF hits = {} THEN 0 ELSE CHOOSE i \in hits : \A j \in hits : i <= j

General == <<"G", "e", "n", "e", "r", "a", "l">>

\* the category block: item_included and category_name
ResolveCategory(item) ==
    LET categories_data == Get(item, "categories", <<>>)
        elements ==
            IF IsDict(categories_data) /\ "elements" \in DOMAIN categories_data
            THEN categories_data.elements
            ELSE <<>>
        hit == FirstListed(elements)
    IN  IF hit = 0
        THEN [item_included |-> FALSE, category_name |-> General]
        ELSE [item_included |-> TRUE,
              category_name |-> Get(elements[hit], "name", General)]

\* if price_cents == 0 or price_dollars == 0  (Off: the test left out)
ZeroPriceOff(price_cents, price_dollars) == FALSE
ZeroPrice(price_cents, price_dollars) ==
    price_cents = 0 \/ price_dollars = ZeroDollars

\* if item_id and item_id not in seen_ids
\* (OffDup: without the seen_ids test; OffId: without the item_id test)
NotSeenOffDup(item_id, seen_ids) == Truthy(item_id)
NotSeenOffId(item_id, seen_ids) ==
    IF Truthy(item_id) THEN item_id \notin seen_ids ELSE TRUE
NotSeen(item_id, seen_ids) == Truthy(item_id) /\ item_id \notin seen_ids

Digits == {"0", "1", "2", "3", "4", "5", "6", "7", "8", "9"}

\* the number of digits a name starts with
RECURSIVE LeadingDigits(_)
LeadingDigits(s) ==
    IF s # <<>> /\ Head(s) \in Digits THEN 1 + LeadingDigits(Tail(s)) ELSE 0

\* a leading "<digits>. " removed: the name cleanup refresh_menu does not do
StripOrdinal(s) ==
    LET k == LeadingDigits(s)
    IN  IF k >= 1 /\ Len(s) >= k + 2 /\ s[k + 1] = "." /\ s[k + 2] = " "
        THEN SubSeq(s, k + 3, Len(s))
        ELSE s

\* item_name = item.get('name', '')  (Off: with the name cleanup)
ItemNameOff(item) == StripOrdinal(Get(item, "name", <<>>))
ItemName(item) == Get(item, "name", <<>>)

\* the dict appended to menu_cache
MenuItem(item, price_dollars, category_name) ==
    [name |-> ItemName(item),
     price |-> price_dollars,
     category |-> category_name,
     available |-> ~Get(item, "hidden", FALSE)]

\* the locals of the loop; `raised`: an exception left the loop
ProcessStart ==
    [menu_cache |-> <<>>, cache_raw |-> <<>>, seen_ids |-> {},
     skipped_zero_price |-> 0, skipped_not_in_whitelist |-> 0,
     raised |-> FALSE]

\* one iteration of `for item in all_items`
ProcessItem(st, item) ==
    IF st.raised THEN st
    ELSE IF ~IsDict(item) THEN [st EXCEPT !.raised = TRUE]
    ELSE
    LET item_id == Get(item, "id", None)
        price_cents == Get(item, "price", JInt(0))
    IN  IF price_cents.t # "int" THEN [st EXCEPT !.raised = TRUE]
        ELSE
        LET price_dollars == PriceDollars(price_cents.v)
            cat == ResolveCategory(item)
        IN  IF ~cat.item_included
            THEN [st EXCEPT !.skipped_not_in_whitelist = @ + 1]
            ELSE IF ZeroPrice(price_cents.v, price_dollars)
            THEN [st EXCEPT !.skipped_zero_price = @ + 1]
            ELSE IF NotSeen(item_id, st.seen_ids)
            THEN [st EXCEPT
                    !.seen_ids = @ \cup {item_id},
                    !.menu_cache =
                        Append(@, MenuItem(item, price_dollars,
                                           cat.category_name)),
                    !.cache_raw = Append(@, item)]
            ELSE st

\* items lo..hi in order (split in halves to keep the evaluation shallow)
RECURSIVE ProcessRange(_, _, _, _)
ProcessRange(st, all_items, lo, hi) ==
    IF st.raised \/ lo > hi THEN st
    ELSE IF lo = hi THEN ProcessItem(st, all_items[lo])
    ELSE LET mid == (lo + hi) \div 2
         IN  ProcessRange(ProcessRange(st, all_items, lo, mid),
                          all_items, mid + 1, hi)

\* self.menu_cache = []; for item in all_items: ...
Process(all_items) == ProcessRange(ProcessStart, all_items, 1, Len(all_items))

---------------------------------------------------------------------------
(* get_menu's sort.                                                        *)

\* (a['category'], a['name']) < (b['category'], b['name'])
KeyLess(a, b) ==
    \/ StrLess(a.category, b.category)
    \/ a.category = b.category /\ StrLess(a.name, b.name)

\* x put before the first item with a greater key (the sort is stable)
RECURSIVE Insert(_, _)
Insert(x, sorted) ==
    IF sorted = <<>> THEN <<x>>
    ELSE IF KeyLess(x, Head(sorted)) THEN <<x>> \o sorted
    ELSE <<Head(sorted)>> \o Insert(x, Tail(sorted))

RECURSIVE SortFrom(_, _, _)
SortFrom(items, i, sorted) ==
    IF i > Len(items) THEN sorted
    ELSE SortFrom(items, i + 1, Insert(items[i], sorted))

---------------------------------------------------------------------------
(* The state machine.                                                      *)

\* a datetime, in minutes
At(t) == [t |-> "datetime", v |-> t]

\* the last cycle that reached the processing loop
NoCycle ==
    [ran |-> FALSE, done |-> FALSE, all_items |-> <<>>,
     skipped_zero_price |-> 0, skipped_not_in_whitelist |-> 0]

\* the handler that has just run: the offsets it requested and, when it
\* returned True after fetching, the catalog it was served; op = "tick" once
\* the clock has moved
NoCall ==
    [op |-> "none", force |-> FALSE, ret |-> TRUE, requests |-> <<>>,
     error |-> "none", catalog |-> <<>>]

RefreshOps == {"startup", "refresh", "get_menu"}

\* MenuManager.__init__ up to the call of refresh_menu
Init ==
    /\ menu_cache = <<>>
    /\ last_refresh = None
    /\ now = 0
    /\ pc = "init"
    /\ call = NoCall
    /\ cycle = NoCycle
    /\ cache_raw = <<>>
    /\ menu_out = <<>>

\* if not force and self.last_refresh: ... < timedelta(minutes=30)
\* (Off: <= in place of <)
FreshOff(force, last, t) ==
    /\ ~force
    /\ last.t # "null"
    /\ t - last.v <= CacheMinutes
Fresh(force, last, t) ==
    /\ ~force
    /\ last.t # "null"
    /\ t - last.v < CacheMinutes

\* refresh_menu(force), called by `op`; what the API does is one of A.
\* Sets everything but pc and menu_out.
RefreshMenu(op, force, A) ==
    LET called(ret, requests, error, catalog) ==
            [op |-> op, force |-> force, ret |-> ret, requests |-> requests,
             error |-> error, catalog |-> catalog]
    IN
    /\ now' = now
    /\ IF Fresh(force, last_refresh, now)
       THEN /\ call' = called(TRUE, <<>>, "none", <<>>)
            /\ UNCHANGED <<menu_cache, last_refresh, cycle, cache_raw>>
       ELSE \E a \in A :
            LET f == Fetch(a.catalog, a.fault)
                p == Process(f.all_items)
            IN  IF ~f.ok
                THEN /\ call' = called(FALSE, f.requests, f.error, <<>>)
                     /\ UNCHANGED <<menu_cache, last_refresh, cycle,
                                    cache_raw>>
                ELSE /\ menu_cache' = p.menu_cache
                     /\ cache_raw' = p.cache_raw
                     /\ cycle' =
                          [ran |-> TRUE, done |-> ~p.raised,
                           all_items |-> f.all_items,
                           skipped_zero_price |-> p.skipped_zero_price,
                           skipped_not_in_whitelist |->
                               p.skipped_not_in_whitelist]
                     /\ IF p.raised
                        THEN /\ last_refresh' = last_refresh
                             /\ call' = called(FALSE, f.requests,
                                               "processing", <<>>)
                        ELSE /\ last_refresh' = At(now)
                             /\ call' = called(TRUE, f.requests, "none",
                                               a.catalog)

\* menu = MenuManager(): __init__ ends with self.refresh_menu()
Startup(A) ==
    /\ pc = "init"
    /\ RefreshMenu("startup", FALSE, A)
    /\ pc' = "serving"
    /\ menu_out' = <<>>

\* POST /menu/refresh and GET /menu/refresh
RefreshRoute(A) ==
    /\ pc = "serving"
    /\ RefreshMenu("refresh", TRUE, A)
    /\ UNCHANGED pc
    /\ menu_out' = <<>>

\* sorted(self.menu_cache, key=lambda x: (x['category'], x['name']))
\* (Off: the list returned as cached)
SortedMenuOff(items) == items
SortedMenu(items) == SortFrom(items, 1, <<>>)

\* get_menu(), called by GET /menu and GET /menu/text
GetMenu(A) ==
    /\ pc = "serving"
    /\ RefreshMenu("get_menu", FALSE, A)
    /\ UNCHANGED pc
    /\ menu_out' = SortedMenu(menu_cache')

\* GET /health: reads the cache, calls nothing
Health ==
    /\ pc = "serving"
    /\ call' = [NoCall EXCEPT !.op = "health"]
    /\ menu_out' = <<>>
    /\ UNCHANGED <<menu_cache, last_refresh, now, pc, cycle, cache_raw>>

TickSteps == {10, 21}

\* time passes between two requests
Tick ==
    /\ pc = "serving"
    /\ \E d \in TickSteps :
          /\ now + d <= MaxTime
          /\ now' = now + d
    /\ call' = [NoCall EXCEPT !.op = "tick"]
    /\ menu_out' = <<>>
    /\ UNCHANGED <<menu_cache, last_refresh, pc, cycle, cache_raw>>

ServiceAttempts == Attempts(ServiceCatalogs)

\* the service, with the catalogs of ServiceItems
Next ==
    \/ Startup(ServiceAttempts)
    \/ RefreshRoute(ServiceAttempts)
    \/ GetMenu(ServiceAttempts)
    \/ Health
    \/ Tick

Spec == Init /\ [][Next]_vars

ItemAttempts == Attempts(Catalogs)

\* the processing loop on every catalog of RawItems
NextItems ==
    \/ Startup(ItemAttempts)
    \/ GetMenu(ItemAttempts)

SpecItems == Init /\ [][NextItems]_vars

BulkAttempts == Attempts(BulkCatalogs)

\* the fetch loop on catalogs of several pages
NextPages ==
    \/ Startup(BulkAttempts)
    \/ GetMenu(BulkAttempts)
    \/ Health

SpecPages == Init /\ [][NextPages]_vars

---------------------------------------------------------------------------
(* Vocabulary of the properties.                                           *)

Range(s) == { s[i] : i \in DOMAIN s }

\* the id of a raw record, None when the key is missing
RawId(item) == Get(item, "id", None)

\* the price of a raw record in cents, 0 when the key is missing
RawCents(item) == Get(item, "price", JInt(0)).v

\* the raw name, '' when the key is missing
RawName(item) == Get(item, "name", <<>>)

\* some category reference of the record is in INCLUDED_CATEGORY_IDS
IsListedItem(item) ==
    LET cd == Get(item, "categories", <<>>)
    IN  /\ "elements" \in DOMAIN cd
        /\ \E i \in DOMAIN cd.elements : Listed(cd.elements[i])

\* the record passes the whitelist filter and the price filter
Passes(item) == IsListedItem(item) /\ RawCents(item) # 0

\* how often x occurs in s
Count(x, s) == Cardinality({ i \in DOMAIN s : s[i] = x })

IsPermutation(s, t) ==
    /\ Len(s) = Len(t)
    /\ \A x \in Range(s) \cup Range(t) : Count(x, s) = Count(x, t)

\* the handler that has just run went to the API and no request failed
FetchedAll ==
    /\ call.op \in RefreshOps
    /\ call.requests # <<>>
    /\ call.error \notin FaultKinds

---------------------------------------------------------------------------
(* C1.  A refresh_menu call that returns False leaves menu_cache and       *)
(* last_refresh exactly as they were before the call, whatever made it     *)
(* fail.  Violated: an exception in the processing loop comes after        *)
(* `self.menu_cache = []`.                                                 *)
C1_FailedRefreshKeepsCache ==
    [][ (call'.op \in RefreshOps /\ ~call'.ret)
          => (menu_cache' = menu_cache /\ last_refresh' = last_refresh) ]_vars

(* C2.  In every state menu_cache is the initial empty list or the         *)
(* complete output of one completed cycle, never what an aborted cycle     *)
(* left behind.  Violated by the same exception.                           *)
C2_CacheIsOneCompletedCycle ==
    IF ~cycle.ran
    THEN menu_cache = <<>>
    ELSE /\ cycle.done
         /\ menu_cache = Process(cycle.all_items).menu_cache

(* C3.  A refresh_menu call issues no request and returns True exactly     *)
(* when it is not forced, last_refresh is set and less than 30 minutes     *)
(* old; otherwise it issues at least one request.  last_refresh is set     *)
(* only by a call that fetched and returned True, to the time of the call, *)
(* so a failed refresh neither starts nor extends the window.              *)
C3_FreshnessWindow ==
    [][ call'.op \in RefreshOps =>
          LET within == /\ ~call'.force
                        /\ last_refresh.t # "null"
                        /\ now - last_refresh.v < 30
          IN  /\ (call'.requests = <<>> /\ call'.ret) <=> within
              /\ ~within => Len(call'.requests) >= 1
              /\ call'.requests = <<>> => last_refresh' = last_refresh
              /\ ~call'.ret => last_refresh' = last_refresh
              /\ (call'.ret /\ call'.requests # <<>>)
                    => last_refresh' = At(now) ]_vars

\* get_menu served from a cache refreshed 10 minutes earlier
C3_Witness ==
    /\ call.op = "get_menu"
    /\ call.requests = <<>>
    /\ call.ret
    /\ last_refresh = At(now - 10)

(* C4.  With no request error the fetch loop ends after exactly            *)
(* floor(n/limit)+1 requests, at offsets 0, limit, 2*limit, ..., and the   *)
(* collected list is the whole catalog in order.                           *)
C4_Pagination ==
    (FetchedAll /\ call.ret) =>
        LET n == Len(call.catalog)
        IN  /\ Len(call.requests) = (n \div limit) + 1
            /\ \A N \in DOMAIN call.requests :
                  call.requests[N] = (N - 1) * limit
            /\ cycle.all_items = call.catalog

\* three full pages and a short one: four requests
C4_Witness ==
    /\ FetchedAll /\ call.ret
    /\ Len(call.requests) = 4
    /\ Len(call.catalog) > 3 * limit

(* C5, as stated.  When two or more records of a cycle share an id, the    *)
(* cache holds exactly one item for that id, built from the first record   *)
(* with that id.  Violated when that first record is skipped by a filter.  *)
C5_FirstRecordWins ==
    (cycle.ran /\ cycle.done) =>
        \A i, j \in DOMAIN cycle.all_items :
            (/\ i < j
             /\ Truthy(RawId(cycle.all_items[i]))
             /\ RawId(cycle.all_items[i]) = RawId(cycle.all_items[j])
             /\ \A h \in 1..(i - 1) :
                   RawId(cycle.all_items[h]) # RawId(cycle.all_items[i]))
            => LET entries == { k \in DOMAIN cache_raw :
                                  RawId(cache_raw[k]) =
                                      RawId(cycle.all_items[i]) }
               IN  /\ Cardinality(entries) = 1
                   /\ \A k \in entries : cache_raw[k] = cycle.all_items[i]

(* C5, amended.  For every id of a cycle the cache holds no item if no     *)
(* record with that id passes the whitelist and price filters, and else    *)
(* exactly one item, built from the first record with that id that passes  *)
(* both filters.                                                           *)
C5_FirstPassingRecordWins ==
    (cycle.ran /\ cycle.done) =>
        \A i \in DOMAIN cycle.all_items :
            Truthy(RawId(cycle.all_items[i])) =>
            LET id == RawId(cycle.all_items[i])
                passing == { h \in DOMAIN cycle.all_items :
                               /\ RawId(cycle.all_items[h]) = id
                               /\ Passes(cycle.all_items[h]) }
                entries == { k \in DOMAIN cache_raw :
                               RawId(cache_raw[k]) = id }
            IN  IF passing = {}
                THEN entries = {}
                ELSE LET first == CHOOSE h \in passing :
                                      \A g \in passing : h <= g
                     IN  /\ Cardinality(entries) = 1
                         /\ \A k \in entries :
                               /\ cache_raw[k] = cycle.all_items[first]
                               /\ menu_cache[k].name =
                                      RawName(cycle.all_items[first])
                               /\ menu_cache[k].price =
                                      PriceDollars(
                                          RawCents(cycle.all_items[first]))

\* a free record, then two priced records, all with the same id
C5_Witness ==
    /\ cycle.ran /\ cycle.done
    /\ cycle.all_items = <<itZero, itAZ, itDup>>
    /\ cache_raw = <<itAZ>>

(* C6.  A record none of whose category references is whitelisted is       *)
(* never cached or returned; a cached item's category is the name of the   *)
(* first whitelisted reference of its record (General if that reference    *)
(* has no name), whatever precedes it.                                     *)
C6_WhitelistCategory ==
    /\ \A k \in DOMAIN menu_cache :
          /\ IsListedItem(cache_raw[k])
          /\ LET els == cache_raw[k].categories.elements
             IN  \E i \in DOMAIN els :
                    /\ Listed(els[i])
                    /\ \A j \in 1..(i - 1) : ~Listed(els[j])
                    /\ menu_cache[k].category = Get(els[i], "name", General)
    /\ cycle.ran =>
          \A i \in DOMAIN cycle.all_items :
              ~IsListedItem(cycle.all_items[i])
                  => cycle.all_items[i] \notin Range(cache_raw)
    /\ Range(menu_out) \subseteq Range(menu_cache)

\* an unlisted reference before the listed one, and an unlisted record
C6_Witness ==
    /\ cycle.ran /\ cycle.done
    /\ cycle.all_items = <<itNoWl, itAA, itBX>>
    /\ Len(menu_cache) = 2
    /\ menu_cache[1].category = Str("A")
    /\ menu_cache[2].category = Str("B")
    /\ call.op = "get_menu"

(* C7.  No item of menu_cache, and none returned by get_menu, has price    *)
(* zero: a record priced 0 or without a price is never emitted.            *)
C7_NoZeroPrice ==
    /\ \A k \in DOMAIN menu_cache :
          /\ menu_cache[k].price # ZeroDollars
          /\ "price" \in DOMAIN cache_raw[k]
          /\ RawCents(cache_raw[k]) # 0
    /\ \A k \in DOMAIN menu_out : menu_out[k].price # ZeroDollars

\* a cycle with a priced record and a free one
C7_Witness ==
    /\ cycle.ran /\ cycle.done
    /\ itZero \in Range(cycle.all_items)
    /\ Len(menu_cache) = 1
    /\ call.op = "get_menu"
    /\ Len(menu_out) = 1

(* C8, as stated.  An emitted item's name is the raw name with a leading   *)
(* "<digits>. " removed.  Violated: the code keeps the name as it is.      *)
C8_NameStripped ==
    \A k \in DOMAIN menu_cache :
        menu_cache[k].name = StripOrdinal(RawName(cache_raw[k]))

(* C8, amended.  An emitted item's name is the raw name, unchanged, with   *)
(* or without an ordinal prefix ('' when the record has no name).          *)
C8_NameKept ==
    \A k \in DOMAIN menu_cache :
        menu_cache[k].name = RawName(cache_raw[k])

\* "67. A" is cached as "67. A"
C8_Witness ==
    \E k \in DOMAIN menu_cache :
        /\ RawName(cache_raw[k]) = OrdinalName
        /\ menu_cache[k].name = OrdinalName
        /\ StripOrdinal(OrdinalName) = Str("A")

(* C9.  get_menu refreshes without force and returns a permutation of      *)
(* menu_cache in ascending (category, name) order, by code point;          *)
(* menu_cache itself keeps the order the cycle gave it.                    *)
C9_SortedMenu ==
    call.op = "get_menu" =>
        /\ ~call.force
        /\ IsPermutation(menu_out, menu_cache)
        /\ \A i, j \in DOMAIN menu_out :
              i < j => ~KeyLess(menu_out[j], menu_out[i])
        /\ cycle.ran => menu_cache = Process(cycle.all_items).menu_cache

\* cached B/X, A/Z, A/"67. A"; returned A/"67. A", A/Z, B/X
C9_Witness ==
    /\ call.op = "get_menu"
    /\ cache_raw = <<itBX, itAZ, itAA>>
    /\ Len(menu_out) = 3
    /\ [k \in 1..3 |-> <<menu_out[k].category, menu_out[k].name>>]
          = << <<Str("A"), OrdinalName>>, <<Str("A"), Str("Z")>>,
               <<Str("B"), Str("X")>> >>
    /\ [k \in 1..3 |-> <<menu_cache[k].category, menu_cache[k].name>>]
          = << <<Str("B"), Str("X")>>, <<Str("A"), Str("Z")>>,
               <<Str("A"), OrdinalName>> >>

(* C10.  A record whose id is missing, null or '' is never emitted, is     *)
(* counted by neither skip counter when it passes both filters, and does   *)
(* not make the refresh fail; the cache holds at most one item per         *)
(* distinct non-empty id.                                                  *)
C10_EmptyIdDropped ==
    /\ \A k \in DOMAIN cache_raw : Truthy(RawId(cache_raw[k]))
    /\ cycle.ran =>
          /\ Len(menu_cache) <=
                Cardinality({ RawId(cycle.all_items[i]) :
                                i \in { h \in DOMAIN cycle.all_items :
                                          Truthy(RawId(cycle.all_items[h])) } })
          /\ cycle.skipped_not_in_whitelist =
                Cardinality({ i \in DOMAIN cycle.all_items :
                                ~IsListedItem(cycle.all_items[i]) })
          /\ cycle.skipped_zero_price =
                Cardinality({ i \in DOMAIN cycle.all_items :
                                /\ IsListedItem(cycle.all_items[i])
                                /\ RawCents(cycle.all_items[i]) = 0 })
    /\ FetchedAll => call.ret

\* two listed, priced records without an id beside a good one
C10_Witness ==
    /\ FetchedAll /\ call.ret
    /\ cycle.all_items = <<itNoId, itAZ, itEmptyId>>
    /\ cache_raw = <<itAZ>>
    /\ cycle.skipped_zero_price = 0
    /\ cycle.skipped_not_in_whitelist = 0

====
